---------------------------- MODULE Spec2Model ----------------------------
(***************************************************************************)
(* Conway's Game of Life: the React driver (src/App.jsx, lines 15-236) and *)
(* the stateful Java class GameOfLife (src/App.jsx, lines 238-454).        *)
(*                                                                         *)
(* Four specifications share the variables:                                *)
(*   SpecFn     the pure functions of both variants applied to one grid    *)
(*   SpecJava   a GameOfLife object: constructors and nextGeneration       *)
(*   SpecDriver the React component: user actions, effects, ticks, renders *)
(*   SpecArgs   the driver and getCellState called with any coordinates    *)
(***************************************************************************)
EXTENDS Integers, Sequences, FiniteSets, TLC

VARIABLES
    rows,            \* App state `rows`            (App.jsx:22)
    cols,            \* App state `cols`            (App.jsx:23)
    grid,            \* App state `grid`            (App.jsx:24)
    running,         \* App state `running`         (App.jsx:25)
    generation,      \* App state `generation`      (App.jsx:26)
    speed,           \* App state `speed`           (App.jsx:27)
    runningRef,      \* runningRef.current          (App.jsx:30-31)
    interval,        \* TRUE while an interval set at App.jsx:68 is not cleared
    effectPending,   \* the effect of App.jsx:66-74 is scheduled, not yet run
    mounted,         \* FALSE once a render threw and React unmounted the tree
    baseState,       \* `grid` before the first update of `queue`, else <<>>
    queue,           \* updates of `grid` and `generation` not yet rendered
    jgrid,           \* GameOfLife.grid             (App.jsx:259)
    totalAliveCells, \* GameOfLife.totalAliveCells  (App.jsx:260)
    ret,             \* the last call of a function: its name, arguments, result
    hist             \* history: what the run has done so far (no program state)

vars == <<rows, cols, grid, running, generation, speed, runningRef, interval,
          effectPending, mounted, baseState, queue, jgrid, totalAliveCells,
          ret, hist>>

driverVars == <<rows, cols, grid, running, generation, speed, runningRef,
                interval, effectPending, mounted, baseState, queue>>

javaVars == <<jgrid, totalAliveCells>>

(***************************************************************************)
(* Bounds of the model.                                                    *)
(***************************************************************************)
\* SpecFn, SpecJava: grids of every shape R x C with R * C <= MaxCells, the
\* shapes of no row or no column among them.
MaxCells == 9
\* SpecJava: nextGeneration(n) is called with n in 0..MaxN.
MaxN == 3
\* SpecJava: at most MaxSteps generations are computed in one run.
MaxSteps == 6
\* SpecDriver, SpecArgs: the board is rows x cols (30 x 50 in the source),
\* here of every shape with rows * cols = MaxBoardCells.
MaxBoardCells == 4
\* SpecDriver: the slider is moved at most MaxSpeedSteps steps above
\* DEFAULT_SPEED.
MaxSpeedSteps == 1
\* SpecDriver: at most MaxQueue updates wait for a render: the updates of
\* interval callbacks and the updates user actions queue behind them.
MaxQueue == 1
\* SpecDriver, SpecArgs: the generation counter is followed up to MaxGen.
MaxGen == 2

(***************************************************************************)
(* Constants of the program.                                               *)
(***************************************************************************)
ALIVE == 1
DEAD == 0
J_ALIVE == TRUE
J_DEAD == FALSE
DEFAULT_SPEED == 150
\* The slider: min 60, max 600, step 30 (App.jsx:219-221), its values from
\* DEFAULT_SPEED upwards.  No code reads `speed` but setInterval.
Speeds == {v \in {DEFAULT_SPEED + 30 * k : k \in 0..MaxSpeedSteps} :
             v >= 60 /\ v <= 600}

NoRet == [fn |-> "none", r |-> 0, c |-> 0, val |-> 0, err |-> "none"]

(***************************************************************************)
(* JavaScript arrays.  An array is a function whose DOMAIN holds its       *)
(* indices 0..length-1 and, possibly, other property keys (such as -1).    *)
(***************************************************************************)
Length(a) == Cardinality({k \in DOMAIN a : k >= 0})

\* [...row]: the indexed elements only
Spread(a) == [k \in 0..(Length(a) - 1) |-> a[k]]

buildEmptyGrid(r, c) == [i \in 0..(r - 1) |-> [j \in 0..(c - 1) |-> 0]]

\* The eight directions, in the order of the array `dirs`
dirs == << <<-1, -1>>, <<-1, 0>>, <<-1, 1>>,
           <<0, -1>>,             <<0, 1>>,
           <<1, -1>>,  <<1, 0>>,  <<1, 1>> >>

RECURSIVE neighbourCountFrom(_, _, _, _)
neighbourCountFrom(r, c, g, k) ==
    IF k > Len(dirs) THEN 0
    ELSE LET newR == (r + dirs[k][1] + rows) % rows
             newC == (c + dirs[k][2] + cols) % cols
         IN  g[newR][newC] + neighbourCountFrom(r, c, g, k + 1)

neighbourCount(r, c, g) == neighbourCountFrom(r, c, g, 1)

nextGenCell(cell, n) ==
    IF cell = ALIVE
        THEN (IF n = 2 \/ n = 3 THEN ALIVE ELSE DEAD)
        ELSE (IF n = 3 THEN ALIVE ELSE DEAD)

nextGen(current) ==
    [r \in 0..(Length(current) - 1) |->
        [c \in 0..(Length(current[r]) - 1) |->
            nextGenCell(current[r][c], neighbourCount(r, c, current))]]

(***************************************************************************)
(* The Java class GameOfLife.  A boolean[][] is a function from 0..R-1 to  *)
(* functions from 0..C-1 to BOOLEAN; G stands for the field `grid`.  A     *)
(* method that throws yields the name of the exception.                    *)
(***************************************************************************)
\* grid[0] of a grid with no row
ArrayIndexOutOfBounds == "ArrayIndexOutOfBoundsException"

JRows(G) == Cardinality(DOMAIN G)
JCols(G, row) == Cardinality(DOMAIN G[row])

DefaultGrid ==
    [i \in 0..4 |-> [j \in 0..4 |->
        IF <<i, j>> \in {<<1, 1>>, <<1, 3>>, <<2, 2>>, <<3, 2>>, <<3, 3>>}
            THEN J_ALIVE ELSE J_DEAD]]

neighboringRow(G, row, i) == (row + i + JRows(G)) % JRows(G)
neighboringCol(G, row, col, j) == (col + j + JCols(G, row)) % JCols(G, row)

\* numOfAliveNeighborsFrom without the `continue` of the offset (0, 0)
RECURSIVE numOfAliveNeighborsNoSkip(_, _, _, _)
numOfAliveNeighborsNoSkip(G, row, col, n) ==
    IF n > 8 THEN 0
    ELSE (IF G[neighboringRow(G, row, (n \div 3) - 1)]
               [neighboringCol(G, row, col, (n % 3) - 1)] = J_ALIVE
          THEN 1 ELSE 0)
         + numOfAliveNeighborsNoSkip(G, row, col, n + 1)

\* The double loop of numOfAliveNeighbors, n = 3 * (i + 1) + (j + 1)
RECURSIVE numOfAliveNeighborsFrom(_, _, _, _)
numOfAliveNeighborsFrom(G, row, col, n) ==
    IF n > 8 THEN 0
    ELSE LET i == (n \div 3) - 1
             j == (n % 3) - 1
         IN  (IF i = 0 /\ j = 0 THEN 0
              ELSE IF G[neighboringRow(G, row, i)][neighboringCol(G, row, col, j)] = J_ALIVE
                   THEN 1 ELSE 0)
             + numOfAliveNeighborsFrom(G, row, col, n + 1)

numOfAliveNeighbors(G, row, col) == numOfAliveNeighborsFrom(G, row, col, 0)

\* computeNewCell with the overpopulation test off by one (>= 3 for > 3)
computeNewCellOffByOne(G, row, col) ==
    LET aliveNeighbors == numOfAliveNeighbors(G, row, col)
    IN  IF G[row][col] /\ aliveNeighbors < 2 THEN J_DEAD
        ELSE IF G[row][col] /\ aliveNeighbors >= 3 THEN J_DEAD
        ELSE IF ~G[row][col] /\ aliveNeighbors = 3 THEN J_ALIVE
        ELSE G[row][col]

computeNewCell(G, row, col) ==
    LET aliveNeighbors == numOfAliveNeighbors(G, row, col)
    IN  IF G[row][col] /\ aliveNeighbors < 2 THEN J_DEAD
        ELSE IF G[row][col] /\ aliveNeighbors > 3 THEN J_DEAD
        ELSE IF ~G[row][col] /\ aliveNeighbors = 3 THEN J_ALIVE
        ELSE G[row][col]

\* `new boolean[grid.length][grid[0].length]` reads grid[0] before any loop
computeNewGrid(G) ==
    IF JRows(G) = 0 THEN ArrayIndexOutOfBounds
    ELSE [row \in 0..(JRows(G) - 1) |->
            [col \in 0..(JCols(G, 0) - 1) |-> computeNewCell(G, row, col)]]

\* nextGenerationN with the loop running once too often (i <= n for i < n)
RECURSIVE nextGenerationOnceMore(_, _)
nextGenerationOnceMore(G, n) ==
    IF n < 0 THEN G
    ELSE IF JRows(G) = 0 THEN computeNewGrid(G)
    ELSE nextGenerationOnceMore(computeNewGrid(G), n - 1)

\* The loop of nextGeneration(int n); an exception of computeNewGrid ends it
RECURSIVE nextGenerationN(_, _)
nextGenerationN(G, n) ==
    IF n <= 0 THEN G
    ELSE IF JRows(G) = 0 THEN computeNewGrid(G)
    ELSE nextGenerationN(computeNewGrid(G), n - 1)

isAlive(G) == \E row \in DOMAIN G : \E col \in DOMAIN G[row] : G[row][col] = J_ALIVE

\* The constructor's count of the true values read from the file: with
\* `row` or `col` 0 its loops read none
RECURSIVE countTrueFrom(_, _)
countTrueFrom(G, n) ==
    IF JRows(G) = 0 \/ n >= JRows(G) * JCols(G, 0) THEN 0
    ELSE (IF G[n \div JCols(G, 0)][n % JCols(G, 0)] = J_ALIVE THEN 1 ELSE 0)
         + countTrueFrom(G, n + 1)

(***************************************************************************)
(* WeightedQuickUnionUF(rows, cols): one element per cell, row * cols + col,*)
(* union by size.  The class is not among the sources; it is modelled from *)
(* the specification's description of the component counter.               *)
(***************************************************************************)
UFNew(R, C) == [parent |-> [p \in 0..(R * C - 1) |-> p],
                size   |-> [p \in 0..(R * C - 1) |-> 1],
                cols   |-> C]

RECURSIVE UFRoot(_, _)
UFRoot(uf, p) == IF uf.parent[p] = p THEN p ELSE UFRoot(uf, uf.parent[p])

UFFind(uf, row, col) == UFRoot(uf, row * uf.cols + col)

UFUnion(uf, row1, col1, row2, col2) ==
    LET rootP == UFFind(uf, row1, col1)
        rootQ == UFFind(uf, row2, col2)
    IN  IF rootP = rootQ THEN uf
        ELSE IF uf.size[rootP] < uf.size[rootQ]
             THEN [uf EXCEPT !.parent[rootP] = rootQ,
                             !.size[rootQ] = uf.size[rootP] + uf.size[rootQ]]
             ELSE [uf EXCEPT !.parent[rootQ] = rootP,
                             !.size[rootP] = uf.size[rootP] + uf.size[rootQ]]

\* communityRow without the wraparound: a row off the board is not visited
communityRowNoWrap(G, row, i) ==
    IF row + i < 0 \/ row + i >= JRows(G) THEN row ELSE row + i

communityRow(G, row, i) == (row + i + JRows(G)) % JRows(G)
communityCol(G, col, j) == (col + j + JCols(G, 0)) % JCols(G, 0)

\* The first loop nest of numOfCommunities: step n visits cell n \div 9 (row
\* major) and the offset n % 9 = 3 * (i + 1) + (j + 1).  The union-find holds
\* one element per cell, so its size is the number of cells to visit.
RECURSIVE unionLoop(_, _, _)
unionLoop(G, uf, n) ==
    IF n >= Cardinality(DOMAIN uf.parent) * 9 THEN uf
    ELSE LET cell == n \div 9
             row  == cell \div JCols(G, 0)
             col  == cell % JCols(G, 0)
             i    == ((n % 9) \div 3) - 1
             j    == ((n % 9) % 3) - 1
             nr   == communityRow(G, row, i)
             nc   == communityCol(G, col, j)
         IN  unionLoop(G,
                 IF G[row][col] = J_ALIVE /\ ~(i = 0 /\ j = 0) /\ G[nr][nc] = J_ALIVE
                     THEN UFUnion(uf, row, col, nr, nc)
                     ELSE uf,
                 n + 1)

Contains(list, x) == \E k \in 1..Len(list) : list[k] = x

\* The second loop nest: the distinct roots of the ALIVE cells
RECURSIVE rootList(_, _, _, _)
rootList(G, uf, n, list) ==
    IF n >= JRows(G) * JCols(G, 0) THEN list
    ELSE LET row == n \div JCols(G, 0)
             col == n % JCols(G, 0)
         IN  rootList(G, uf, n + 1,
                 IF G[row][col] = J_ALIVE /\ ~Contains(list, UFFind(uf, row, col))
                     THEN Append(list, UFFind(uf, row, col))
                     ELSE list)

\* `new WeightedQuickUnionUF(grid.length, grid[0].length)` reads grid[0]
numOfCommunities(G) ==
    IF JRows(G) = 0 THEN ArrayIndexOutOfBounds
    ELSE Len(rootList(G, unionLoop(G, UFNew(JRows(G), JCols(G, 0)), 0), 0, <<>>))


(***************************************************************************)
(* The grids of the bounded model.                                         *)
(***************************************************************************)
Shapes == {sh \in (0..MaxCells) \X (0..MaxCells) : sh[1] * sh[2] <= MaxCells}

JSGrids(R, C) == [0..(R - 1) -> [0..(C - 1) -> {DEAD, ALIVE}]]

\* The boolean[][] holding the same cells as the number[][] g
ToJava(g) == [r \in DOMAIN g |-> [c \in DOMAIN g[r] |-> g[r][c] = ALIVE]]

\* ctor, steps: the constructor used and the generations computed (SpecJava).
\* last: the last user action ("... rejected": it returned at its test of
\* `running`); skipped: an interval callback has returned at
\* its runningRef test since then; applied: the applications of nextGen to the
\* grid since start-up or the last clear or randomise (SpecDriver, SpecArgs).
NoHist == [ctor |-> "none", steps |-> 0, last |-> "none", skipped |-> FALSE,
           applied |-> 0]

DriverIdle ==
    /\ running = FALSE
    /\ generation = 0
    /\ speed = DEFAULT_SPEED
    /\ runningRef = FALSE
    /\ interval = FALSE
    /\ effectPending = FALSE
    /\ mounted = TRUE
    /\ baseState = <<>>
    /\ queue = <<>>

(***************************************************************************)
(* SpecFn: the pure functions, each applied to one grid of any shape.  The *)
(* React functions read `grid` (with `rows`, `cols` its shape), the Java   *)
(* methods read `jgrid`, which holds the same cells.  The functions change  *)
(* no state, so a run makes one call: a later call would return what the   *)
(* same call returns as the first.                                         *)
(***************************************************************************)
InitFn ==
    /\ \E sh \in Shapes :
        /\ rows = sh[1]
        /\ cols = sh[2]
        /\ grid \in JSGrids(sh[1], sh[2])
    /\ jgrid = ToJava(grid)
    /\ totalAliveCells = countTrueFrom(jgrid, 0)
    /\ DriverIdle
    /\ ret = NoRet
    /\ hist = NoHist

CallNeighbourCount(r, c) ==
    /\ ret = NoRet
    /\ ret' = [fn |-> "neighbourCount", r |-> r, c |-> c,
               val |-> neighbourCount(r, c, grid), err |-> "none"]
    /\ UNCHANGED <<driverVars, javaVars, hist>>

CallNextGen ==
    /\ ret = NoRet
    /\ ret' = [fn |-> "nextGen", r |-> 0, c |-> 0,
               val |-> nextGen(grid), err |-> "none"]
    /\ UNCHANGED <<driverVars, javaVars, hist>>

CallNumOfAliveNeighbors(row, col) ==
    /\ ret = NoRet
    /\ ret' = [fn |-> "numOfAliveNeighbors", r |-> row, c |-> col,
               val |-> numOfAliveNeighbors(jgrid, row, col), err |-> "none"]
    /\ UNCHANGED <<driverVars, javaVars, hist>>

CallComputeNewGrid ==
    /\ ret = NoRet
    /\ ret' = IF JRows(jgrid) = 0
                THEN [NoRet EXCEPT !.fn = "computeNewGrid",
                                   !.err = computeNewGrid(jgrid)]
                ELSE [fn |-> "computeNewGrid", r |-> 0, c |-> 0,
                      val |-> computeNewGrid(jgrid), err |-> "none"]
    /\ UNCHANGED <<driverVars, javaVars, hist>>

CallNumOfCommunities ==
    /\ ret = NoRet
    /\ ret' = IF JRows(jgrid) = 0
                THEN [NoRet EXCEPT !.fn = "numOfCommunities",
                                   !.err = numOfCommunities(jgrid)]
                ELSE [fn |-> "numOfCommunities", r |-> 0, c |-> 0,
                      val |-> numOfCommunities(jgrid), err |-> "none"]
    /\ UNCHANGED <<driverVars, javaVars, hist>>

NextFn ==
    \/ \E r \in 0..(rows - 1), c \in 0..(cols - 1) : CallNeighbourCount(r, c)
    \/ CallNextGen
    \/ \E r \in 0..(rows - 1), c \in 0..(cols - 1) : CallNumOfAliveNeighbors(r, c)
    \/ CallComputeNewGrid
    \/ CallNumOfCommunities

SpecFn == InitFn /\ [][NextFn]_vars

(***************************************************************************)
(* Reference notions the properties are stated with.                       *)
(***************************************************************************)
Offsets == ((-1..1) \X (-1..1)) \ {<<0, 0>>}

\* The coordinate reached from (r, c) by offset o on the R x C torus
Wrapped(R, C, r, c, o) == <<(r + o[1]) % R, (c + o[2]) % C>>

\* ALIVE neighbour coordinates of (r, c), one per offset
OffsetCount(G, r, c) ==
    LET R == JRows(G)
        C == JCols(G, 0)
    IN  Cardinality({o \in Offsets :
            G[Wrapped(R, C, r, c, o)[1]][Wrapped(R, C, r, c, o)[2]]})

\* The same, leaving out the offsets that wrap back onto (r, c) itself
OffsetCountExcludingSelf(G, r, c) ==
    LET R == JRows(G)
        C == JCols(G, 0)
    IN  Cardinality({o \in Offsets :
            /\ Wrapped(R, C, r, c, o) # <<r, c>>
            /\ G[Wrapped(R, C, r, c, o)[1]][Wrapped(R, C, r, c, o)[2]]})

LifeRule(alive, n) == (alive /\ n \in {2, 3}) \/ (~alive /\ n = 3)

\* One generation by the rule, every count taken from the input grid G
RuleGrid(G) ==
    [r \in DOMAIN G |-> [c \in DOMAIN G[r] |->
        LifeRule(G[r][c], OffsetCount(G, r, c))]]

\* G with the state of cell (r, c) flipped
Flipped(G, r, c) == [G EXCEPT ![r][c] = ~G[r][c]]
FlippedJS(g, r, c) == [g EXCEPT ![r][c] = IF g[r][c] = ALIVE THEN DEAD ELSE ALIVE]

AliveCells(G) ==
    {p \in UNION {{r} \X (DOMAIN G[r]) : r \in DOMAIN G} : G[p[1]][p[2]]}

Adjacent(G, a, b) ==
    /\ a # b
    /\ \E o \in Offsets : b = Wrapped(JRows(G), JCols(G, 0), a[1], a[2], o)

\* Adjacent without crossing an edge of the board
AdjacentInside(a, b) ==
    /\ a # b
    /\ a[1] - b[1] \in -1..1
    /\ a[2] - b[2] \in -1..1

RECURSIVE Reach(_, _)
Reach(G, S) ==
    LET T == S \cup {b \in AliveCells(G) : \E a \in S : Adjacent(G, a, b)}
    IN  IF T = S THEN S ELSE Reach(G, T)

Components(G) == {Reach(G, {a}) : a \in AliveCells(G)}


(***************************************************************************)
(* C2: one generation step yields ALIVE exactly when the cell is ALIVE     *)
(* with 2 or 3 ALIVE neighbours or DEAD with exactly 3, every count taken  *)
(* from the input grid; this holds of nextGen and of computeNewGrid, whose *)
(* outputs on the same grid are the same cells in the same dimensions.     *)
(* A grid has a row: the specification's grids have positive dimensions,   *)
(* and of a grid with no row computeNewGrid throws.                        *)
(***************************************************************************)
C2_StepperRule ==
    /\ ret.fn = "nextGen" =>
        /\ ToJava(ret.val) = RuleGrid(ToJava(grid))
        /\ JRows(jgrid) >= 1 => ToJava(ret.val) = computeNewGrid(jgrid)
        /\ Length(ret.val) = rows
        /\ \A r \in 0..(rows - 1) : Length(ret.val[r]) = cols
    /\ (ret.fn = "computeNewGrid" /\ JRows(jgrid) >= 1) =>
        /\ ret.err = "none"
        /\ ret.val = RuleGrid(jgrid)
        /\ ret.val = ToJava(nextGen(grid))
        /\ JRows(ret.val) = JRows(jgrid)
        /\ \A r \in DOMAIN ret.val : JCols(ret.val, r) = JCols(jgrid, r)

\* computeNewGrid has run on a grid where a cell died of overpopulation, one
\* survived and one was born
C2_Witness ==
    /\ ret.fn = "computeNewGrid"
    /\ rows = 2 /\ cols = 4
    /\ \E p \in AliveCells(jgrid) : OffsetCount(jgrid, p[1], p[2]) > 3 /\ ~ret.val[p[1]][p[2]]
    /\ \E p \in AliveCells(jgrid) : OffsetCount(jgrid, p[1], p[2]) = 3 /\ ret.val[p[1]][p[2]]
    /\ \E p \in ((0..1) \X (0..3)) \ AliveCells(jgrid) : ret.val[p[1]][p[2]]

(***************************************************************************)
(* C3 as claimed: on every grid with positive dimensions the neighbour     *)
(* counter returns a value in 0..8, the number of ALIVE cells among the 8  *)
(* wrapped neighbour coordinates excluding the cell itself, so that the    *)
(* cell's own state never contributes to its own count.                    *)
(***************************************************************************)
C3_SelfNeverCounted ==
    /\ ret.fn = "neighbourCount" =>
        /\ ret.val \in 0..8
        /\ ret.val = OffsetCountExcludingSelf(ToJava(grid), ret.r, ret.c)
        /\ ret.val = neighbourCount(ret.r, ret.c, FlippedJS(grid, ret.r, ret.c))
    /\ ret.fn = "numOfAliveNeighbors" =>
        /\ ret.val \in 0..8
        /\ ret.val = OffsetCountExcludingSelf(jgrid, ret.r, ret.c)
        /\ ret.val = numOfAliveNeighbors(Flipped(jgrid, ret.r, ret.c), ret.r, ret.c)

(***************************************************************************)
(* C3 as amended: the neighbour counter returns a value in 0..8, the       *)
(* number of offsets other than (0, 0) in -1..1 x -1..1 whose wrapped      *)
(* coordinate holds an ALIVE cell (a coordinate reached by several offsets *)
(* counts once per offset); the cell's own state does not contribute when  *)
(* R >= 2 and C >= 2; for the corner (0, 0) the cells (R-1, C-1), (R-1, 0) *)
(* and (0, C-1) are counted.                                               *)
(***************************************************************************)
CornerCount(G) ==
    LET R == JRows(G)
        C == JCols(G, 0)
    IN  (IF G[R - 1][C - 1] THEN 1 ELSE 0) + (IF G[R - 1][0] THEN 1 ELSE 0)
        + (IF G[0][C - 1] THEN 1 ELSE 0)

C3_NeighbourCount ==
    /\ ret.fn = "neighbourCount" =>
        /\ ret.val \in 0..8
        /\ ret.val = OffsetCount(ToJava(grid), ret.r, ret.c)
        /\ (rows >= 2 /\ cols >= 2) =>
            ret.val = neighbourCount(ret.r, ret.c, FlippedJS(grid, ret.r, ret.c))
        /\ (ret.r = 0 /\ ret.c = 0) => ret.val >= CornerCount(ToJava(grid))
    /\ ret.fn = "numOfAliveNeighbors" =>
        /\ ret.val \in 0..8
        /\ ret.val = OffsetCount(jgrid, ret.r, ret.c)
        /\ (rows >= 2 /\ cols >= 2) =>
            ret.val = numOfAliveNeighbors(Flipped(jgrid, ret.r, ret.c), ret.r, ret.c)
        /\ (ret.r = 0 /\ ret.c = 0) => ret.val >= CornerCount(jgrid)

\* The corner (0, 0) of a 3 x 3 grid counted its three wrapped corner
\* neighbours and not its own ALIVE state
C3_Witness ==
    /\ ret.fn = "numOfAliveNeighbors"
    /\ rows = 3 /\ cols = 3
    /\ ret.r = 0 /\ ret.c = 0
    /\ AliveCells(jgrid) = {<<0, 0>>, <<2, 2>>, <<2, 0>>, <<0, 2>>}
    /\ ret.val = 3

(***************************************************************************)
(* C4: numOfCommunities returns the number of maximal sets of ALIVE cells  *)
(* connected through chains of wrapped 8-adjacency: 0 with no ALIVE cell,  *)
(* 1 with exactly one, 1 for two ALIVE cells that are adjacent (also when  *)
(* only across an edge), 2 for two that are not adjacent.  A grid has a    *)
(* row: the specification's grids have positive dimensions, and of a grid  *)
(* with no row numOfCommunities throws.                                    *)
(***************************************************************************)
C4_Communities ==
    (ret.fn = "numOfCommunities" /\ JRows(jgrid) >= 1) =>
        LET A == AliveCells(jgrid)
        IN  /\ ret.err = "none"
            /\ ret.val = Cardinality(Components(jgrid))
            /\ A = {} => ret.val = 0
            /\ Cardinality(A) = 1 => ret.val = 1
            /\ Cardinality(A) = 2 =>
                ret.val = IF \E a, b \in A : Adjacent(jgrid, a, b) THEN 1 ELSE 2

\* Two ALIVE cells adjacent only across the top and bottom edges were
\* counted as one community
C4_Witness ==
    /\ ret.fn = "numOfCommunities"
    /\ Cardinality(AliveCells(jgrid)) = 2
    /\ \E a, b \in AliveCells(jgrid) :
        /\ Adjacent(jgrid, a, b)
        /\ ~AdjacentInside(a, b)
        /\ a[1] = 0 /\ b[1] = JRows(jgrid) - 1 /\ JRows(jgrid) >= 4
    /\ ret.val = 1


(***************************************************************************)
(* SpecJava: a GameOfLife object from either constructor, then any calls   *)
(* of nextGeneration(), nextGeneration(n) and getTotalAliveCells().        *)
(* hist.ctor is the constructor used, hist.steps the generations computed. *)
(***************************************************************************)
JavaGrids(R, C) == [0..(R - 1) -> [0..(C - 1) -> BOOLEAN]]

DriverUnused ==
    /\ rows = 1
    /\ cols = 1
    /\ grid = buildEmptyGrid(1, 1)
    /\ DriverIdle

\* public GameOfLife()
GameOfLifeDefault ==
    /\ jgrid = DefaultGrid
    /\ totalAliveCells = 5
    /\ hist = [NoHist EXCEPT !.ctor = "default"]

\* public GameOfLife(String file): the file holds R, C and R x C booleans;
\* `new boolean[0][C]` has no row, `new boolean[R][0]` has R rows of no cell.
\* (With a negative count the constructor throws: there is no object.)
GameOfLifeFile ==
    /\ \E sh \in Shapes : jgrid \in JavaGrids(sh[1], sh[2])
    /\ totalAliveCells = countTrueFrom(jgrid, 0)
    /\ hist = [NoHist EXCEPT !.ctor = "file"]

InitJava ==
    /\ DriverUnused
    /\ ret = NoRet
    /\ (GameOfLifeDefault \/ GameOfLifeFile)

\* An exception of computeNewGrid leaves the method before the assignment
nextGeneration ==
    /\ hist.steps < MaxSteps
    /\ IF JRows(jgrid) = 0
        THEN /\ ret' = [NoRet EXCEPT !.fn = "nextGeneration",
                                     !.err = computeNewGrid(jgrid)]
             /\ UNCHANGED <<driverVars, javaVars, hist>>
        ELSE /\ jgrid' = computeNewGrid(jgrid)
             /\ hist' = [hist EXCEPT !.steps = @ + 1]
             /\ ret' = NoRet
             /\ UNCHANGED <<driverVars, totalAliveCells>>

nextGenerationInt(n) ==
    /\ hist.steps + n <= MaxSteps
    /\ IF JRows(jgrid) = 0 /\ n >= 1
        THEN /\ ret' = [NoRet EXCEPT !.fn = "nextGeneration",
                                     !.err = nextGenerationN(jgrid, n)]
             /\ UNCHANGED <<driverVars, javaVars, hist>>
        ELSE /\ jgrid' = nextGenerationN(jgrid, n)
             /\ hist' = [hist EXCEPT !.steps = @ + n]
             /\ ret' = NoRet
             /\ UNCHANGED <<driverVars, totalAliveCells>>

getTotalAliveCells ==
    /\ ret' = [fn |-> "getTotalAliveCells", r |-> 0, c |-> 0,
               val |-> totalAliveCells, err |-> "none"]
    /\ UNCHANGED <<driverVars, javaVars, hist>>

NextJava ==
    \/ nextGeneration
    \/ \E n \in 0..MaxN : nextGenerationInt(n)
    \/ getTotalAliveCells

SpecJava == InitJava /\ [][NextJava]_vars

(***************************************************************************)
(* C1: after any sequence of nextGeneration() and nextGeneration(n) calls  *)
(* from either constructor, getTotalAliveCells() is the number of ALIVE    *)
(* cells in the held grid.                                                 *)
(***************************************************************************)
C1_AliveCountMatchesGrid ==
    ret.fn = "getTotalAliveCells" => ret.val = Cardinality(AliveCells(jgrid))

(***************************************************************************)
(* C5: from the default 5 x 5 seed the grid has an ALIVE cell after 0, 1,  *)
(* 2 and 3 generations, is entirely DEAD after 4, and stays entirely DEAD. *)
(***************************************************************************)
C5_DefaultSeedDiesAfterFour ==
    hist.ctor = "default" =>
        /\ hist.steps < 4 => isAlive(jgrid)
        /\ hist.steps >= 4 => ~isAlive(jgrid)

\* The default seed, four generations on, with the third reached by
\* nextGeneration(3) or three single steps: nothing is ALIVE
C5_Witness ==
    /\ hist.ctor = "default"
    /\ hist.steps = 4
    /\ AliveCells(jgrid) = {}
    /\ JRows(jgrid) = 5 /\ JCols(jgrid, 0) = 5


(***************************************************************************)
(* The React component App.                                                *)
(*                                                                         *)
(* A user action is a discrete event: React runs the handler, applies the  *)
(* updates it queues and renders before any other task runs, so each       *)
(* action below is the handler together with the render it causes.  The    *)
(* render assigns runningRef.current (App.jsx:31).  The effect of          *)
(* App.jsx:66-74 runs after the render, at once or in a later task: it is  *)
(* FlushEffects, and is run at the latest before the next render.          *)
(*                                                                         *)
(* An interval callback is a task of its own, Tick: it queues the two      *)
(* updates of App.jsx:70-71 and returns.  React renders them in a later    *)
(* task, Render (at once in a build that does not batch: Tick followed by  *)
(* Render).  A user action that comes between the two is rendered first,   *)
(* without the updates of the tick; an update of `grid` it queues is kept  *)
(* behind them in `queue`, and Render applies the whole queue, in order,   *)
(* to baseState, the grid the first update of the tick was queued on.      *)
(* `generation` needs no such replay: its updates commute.                 *)
(***************************************************************************)
\* a[k] = v
Assign(a, k, v) == [x \in (DOMAIN a) \cup {k} |-> IF x = k THEN v ELSE a[x]]

\* Whether a[k] is truthy: an absent a[k] is undefined, which is falsy, as is 0
Truthy(a, k) == k \in DOMAIN a /\ a[k] # 0

\* The updater of toggleCell applied to g
toggled(g, r, c) ==
    LET copy == [i \in 0..(Length(g) - 1) |-> Spread(g[i])]
    IN  [copy EXCEPT ![r] = Assign(copy[r], c,
                                   IF Truthy(g[r], c) THEN DEAD ELSE ALIVE)]

\* The queued updates: of a tick (App.jsx:70-71), of step (App.jsx:90-91)
\* and of toggleCell (App.jsx:79-83)
tickUpdate == [op |-> "tick", r |-> 0, c |-> 0]
stepUpdate == [op |-> "step", r |-> 0, c |-> 0]
toggleUpdate(r, c) == [op |-> "toggle", r |-> r, c |-> c]

\* The updates of q applied to the grid g, in the order they were queued
RECURSIVE Rebase(_, _)
Rebase(g, q) ==
    IF q = <<>>
        THEN g
        ELSE Rebase(IF Head(q).op = "toggle"
                        THEN toggled(g, Head(q).r, Head(q).c)
                        ELSE nextGen(g),
                    Tail(q))

\* The updates `g => g + 1` of generation (App.jsx:71) in q not yet rendered
Ticks(q) == Cardinality({i \in DOMAIN q : q[i].op = "tick"})

\* An update of `grid` by a user action: with a tick waiting for its render,
\* it is queued behind the updates of the tick
Queued(u) == IF queue = <<>> THEN <<>> ELSE Append(queue, u)

QueueRoom == queue = <<>> \/ Len(queue) < MaxQueue

\* The render after a state update: newRunning and newSpeed are the values
\* of `running` and `speed` it renders with.
Commit(newRunning, newSpeed) ==
    /\ runningRef' = newRunning
    /\ interval' = IF effectPending THEN running ELSE interval
    /\ effectPending' = (newRunning # running \/ newSpeed # speed)

\* The effect: the cleanup of the previous run (clearInterval), then
\* `if (!running) return;` or setInterval
FlushEffects ==
    /\ mounted
    /\ effectPending
    /\ interval' = running
    /\ effectPending' = FALSE
    /\ UNCHANGED <<rows, cols, grid, running, generation, speed, runningRef,
                   mounted, baseState, queue, javaVars, ret, hist>>

\* The interval callback
Tick ==
    /\ mounted
    /\ interval
    /\ IF ~runningRef
        THEN /\ hist' = [hist EXCEPT !.skipped = TRUE]
             /\ UNCHANGED <<driverVars, javaVars, ret>>
        ELSE /\ generation + Ticks(queue) < MaxGen
             /\ Len(queue) < MaxQueue
             /\ baseState' = IF queue = <<>> THEN grid ELSE baseState
             /\ queue' = Append(queue, tickUpdate)
             /\ UNCHANGED <<rows, cols, grid, running, generation, speed,
                            runningRef, interval, effectPending, mounted,
                            javaVars, ret, hist>>

\* The render of the updates the interval callbacks queued
Render ==
    /\ mounted
    /\ queue # <<>>
    /\ hist' = [hist EXCEPT !.applied = @ + Ticks(queue)]
    /\ grid' = Rebase(baseState, queue)
    /\ generation' = generation + Ticks(queue)
    /\ baseState' = <<>>
    /\ queue' = <<>>
    /\ Commit(running, speed)
    /\ UNCHANGED <<rows, cols, running, speed, mounted, javaVars, ret>>

\* toggleCell without `if (running) return;`
toggleCellNoGuard(r, c) ==
    /\ mounted
    /\ r \in DOMAIN grid
    /\ QueueRoom
    /\ hist' = [hist EXCEPT !.last = "toggleCell", !.skipped = FALSE]
    /\ grid' = toggled(grid, r, c)
    /\ queue' = Queued(toggleUpdate(r, c))
    /\ Commit(running, speed)
    /\ ret' = NoRet
    /\ UNCHANGED <<rows, cols, running, generation, speed, mounted, baseState,
                   javaVars>>

toggleCell(r, c) ==
    /\ mounted
    /\ IF running
        THEN /\ hist' = [hist EXCEPT !.last = "toggleCell rejected", !.skipped = FALSE]
             /\ UNCHANGED <<driverVars, javaVars, ret>>
        ELSE IF r \notin DOMAIN grid
        THEN \* g[r] is undefined and g[r][c] throws a TypeError in the render:
             \* React unmounts the tree, and the effect's cleanup runs
             /\ hist' = [hist EXCEPT !.last = "toggleCell", !.skipped = FALSE]
             /\ mounted' = FALSE
             /\ interval' = FALSE
             /\ effectPending' = FALSE
             /\ baseState' = <<>>
             /\ queue' = <<>>
             /\ ret' = [NoRet EXCEPT !.fn = "toggleCell", !.err = "TypeError"]
             /\ UNCHANGED <<rows, cols, grid, running, generation, speed,
                            runningRef, javaVars>>
        ELSE /\ QueueRoom
             /\ hist' = [hist EXCEPT !.last = "toggleCell", !.skipped = FALSE]
             /\ grid' = toggled(grid, r, c)
             /\ queue' = Queued(toggleUpdate(r, c))
             /\ Commit(running, speed)
             /\ ret' = NoRet
             /\ UNCHANGED <<rows, cols, running, generation, speed, mounted,
                            baseState, javaVars>>

runToggle ==
    /\ mounted
    /\ hist' = [hist EXCEPT !.last = "runToggle", !.skipped = FALSE]
    /\ running' = ~running
    /\ Commit(~running, speed)
    /\ ret' = NoRet
    /\ UNCHANGED <<rows, cols, grid, generation, speed, mounted, baseState,
                   queue, javaVars>>

\* step without setGeneration
stepNoCount ==
    /\ mounted
    /\ ~running
    /\ generation + Ticks(queue) < MaxGen
    /\ QueueRoom
    /\ hist' = [hist EXCEPT !.last = "step", !.skipped = FALSE, !.applied = @ + 1]
    /\ grid' = nextGen(grid)
    /\ queue' = Queued(stepUpdate)
    /\ Commit(running, speed)
    /\ ret' = NoRet
    /\ UNCHANGED <<rows, cols, running, generation, speed, mounted, baseState,
                   javaVars>>

step ==
    /\ mounted
    /\ IF running
        THEN /\ hist' = [hist EXCEPT !.last = "step rejected", !.skipped = FALSE]
             /\ UNCHANGED <<driverVars, javaVars, ret>>
        ELSE /\ generation + Ticks(queue) < MaxGen
             /\ QueueRoom
             /\ hist' = [hist EXCEPT !.last = "step", !.skipped = FALSE,
                                     !.applied = @ + 1]
             /\ grid' = nextGen(grid)
             /\ generation' = generation + 1
             /\ queue' = Queued(stepUpdate)
             /\ Commit(running, speed)
             /\ ret' = NoRet
             /\ UNCHANGED <<rows, cols, running, speed, mounted, baseState,
                            javaVars>>

\* clear without setRunning(false)
clearKeepsRunning ==
    /\ mounted
    /\ hist' = [hist EXCEPT !.last = "clear", !.skipped = FALSE, !.applied = 0]
    /\ grid' = buildEmptyGrid(rows, cols)
    /\ generation' = 0
    /\ baseState' = <<>>
    /\ queue' = <<>>
    /\ Commit(running, speed)
    /\ ret' = NoRet
    /\ UNCHANGED <<rows, cols, running, speed, mounted, javaVars>>

\* setGrid and setGeneration are passed values, not updaters: whatever the
\* updates queued before them compute, the render yields these values, so
\* the queue is not followed any further.
clear ==
    /\ mounted
    /\ hist' = [hist EXCEPT !.last = "clear", !.skipped = FALSE, !.applied = 0]
    /\ running' = FALSE
    /\ grid' = buildEmptyGrid(rows, cols)
    /\ generation' = 0
    /\ baseState' = <<>>
    /\ queue' = <<>>
    /\ Commit(FALSE, speed)
    /\ ret' = NoRet
    /\ UNCHANGED <<rows, cols, speed, mounted, javaVars>>

\* `Math.random() > 0.7 ? ALIVE : DEAD` for every cell: any grid can be drawn
randomise ==
    /\ mounted
    /\ hist' = [hist EXCEPT !.last = "randomise", !.skipped = FALSE,
                            !.applied = 0]
    /\ running' = FALSE
    /\ \E rand \in JSGrids(rows, cols) : grid' = rand
    /\ generation' = 0
    /\ baseState' = <<>>
    /\ queue' = <<>>
    /\ Commit(FALSE, speed)
    /\ ret' = NoRet
    /\ UNCHANGED <<rows, cols, speed, mounted, javaVars>>

\* The slider's onChange: setSpeed(Number(e.target.value))
setSpeed(v) ==
    /\ mounted
    /\ IF v = speed
        THEN UNCHANGED vars
        ELSE /\ hist' = [hist EXCEPT !.last = "setSpeed", !.skipped = FALSE]
             /\ speed' = v
             /\ Commit(running, v)
             /\ ret' = NoRet
             /\ UNCHANGED <<rows, cols, grid, running, generation, mounted,
                            baseState, queue, javaVars>>

JavaUnused ==
    /\ jgrid = DefaultGrid
    /\ totalAliveCells = 5

\* The boards: every shape of MaxBoardCells cells
BoardShapes ==
    {sh \in (1..MaxBoardCells) \X (1..MaxBoardCells) :
        sh[1] * sh[2] = MaxBoardCells}

InitDriver ==
    /\ \E sh \in BoardShapes :
        /\ rows = sh[1]
        /\ cols = sh[2]
        /\ grid = buildEmptyGrid(sh[1], sh[2])
    /\ DriverIdle
    /\ JavaUnused
    /\ ret = NoRet
    /\ hist = NoHist

NextDriver ==
    \/ runToggle
    \/ step
    \/ clear
    \/ randomise
    \/ \E r \in 0..(rows - 1), c \in 0..(cols - 1) : toggleCell(r, c)
    \/ \E v \in Speeds : setSpeed(v)
    \/ FlushEffects
    \/ Tick
    \/ Render

SpecDriver == InitDriver /\ [][NextDriver]_vars

(***************************************************************************)
(* SpecArgs: the STOPPED driver with toggleCell called with any            *)
(* coordinates from one outside the board on each side, and getCellState   *)
(* of a GameOfLife object (the default 5 x 5 one) called likewise.         *)
(***************************************************************************)
\* grid[row][col] of Java: an index outside an array throws
getCellState(row, col) ==
    /\ ret' = IF row \in DOMAIN jgrid /\ col \in DOMAIN jgrid[row]
                THEN [NoRet EXCEPT !.fn = "getCellState", !.val = jgrid[row][col]]
                ELSE [NoRet EXCEPT !.fn = "getCellState",
                                   !.err = "ArrayIndexOutOfBoundsException"]
    /\ UNCHANGED <<driverVars, javaVars, hist>>

NextArgs ==
    \/ step
    \/ clear
    \/ \E r \in -1..rows, c \in -1..cols : toggleCell(r, c)
    \/ \E row \in -1..JRows(jgrid), col \in -1..JCols(jgrid, 0) : getCellState(row, col)

SpecArgs == InitDriver /\ [][NextArgs]_vars

(***************************************************************************)
(* Notions the driver's properties are stated with.                        *)
(***************************************************************************)
ToJS(G) == [r \in DOMAIN G |-> [c \in DOMAIN G[r] |-> IF G[r][c] THEN ALIVE ELSE DEAD]]

\* The grid one generation after g, by the rule
OneGeneration(g) == ToJS(RuleGrid(ToJava(g)))

Board == (0..(rows - 1)) \X (0..(cols - 1))

(***************************************************************************)
(* C6: while RUNNING, step and toggleCell(r, c) leave the grid, the        *)
(* generation counter and the running flag unchanged; while STOPPED,       *)
(* toggleCell(r, c) flips cell (r, c) and changes no other cell nor the    *)
(* generation counter, and step advances the grid by one generation and    *)
(* stays STOPPED.                                                          *)
(***************************************************************************)
C6_EditsOnlyWhenStopped ==
    [][ /\ \A p \in Board :
            toggleCell(p[1], p[2]) =>
                IF running
                    THEN UNCHANGED <<grid, generation, running>>
                    ELSE /\ grid' = FlippedJS(grid, p[1], p[2])
                         /\ UNCHANGED <<generation, running>>
        /\ step =>
                IF running
                    THEN UNCHANGED <<grid, generation, running>>
                    ELSE /\ grid' = OneGeneration(grid)
                         /\ running' = FALSE
      ]_vars

\* An edit was rejected while RUNNING, with cells on the board
C6_Witness ==
    /\ hist.last = "toggleCell rejected"
    /\ running
    /\ generation >= 1
    /\ \E p \in Board : grid[p[1]][p[2]] = ALIVE

(***************************************************************************)
(* C7: clear leaves the driver STOPPED, every cell DEAD and the generation *)
(* counter 0; randomise leaves it STOPPED with a rows x cols grid and the  *)
(* counter 0; these hold until the next user action.                       *)
(***************************************************************************)
C7_ClearAndRandomise ==
    /\ hist.last = "clear" =>
        /\ running = FALSE
        /\ grid = [r \in 0..(rows - 1) |-> [c \in 0..(cols - 1) |-> DEAD]]
        /\ generation = 0
    /\ hist.last = "randomise" =>
        /\ running = FALSE
        /\ DOMAIN grid = 0..(rows - 1)
        /\ \A r \in DOMAIN grid : DOMAIN grid[r] = 0..(cols - 1)
        /\ generation = 0

\* randomise pressed while RUNNING: the interval it leaves behind has fired
C7_Witness ==
    /\ hist.last = "randomise"
    /\ hist.skipped
    /\ interval
    /\ \E p \in Board : grid[p[1]][p[2]] = ALIVE

(***************************************************************************)
(* C8: the generation counter is the number of generation steps applied to *)
(* the grid since start-up or the last clear or randomise; a tick while    *)
(* RUNNING queues one application of the stepper and one increment, which  *)
(* the same render applies; a step while STOPPED applies the stepper once  *)
(* and adds 1 to the counter; start, stop, toggleCell and a change of      *)
(* speed do neither.                                                       *)
(***************************************************************************)
C8_GenerationCountsSteps ==
    /\ [](generation = hist.applied)
    /\ [][ /\ (step /\ ~running) =>
                /\ generation' = generation + 1
                /\ hist'.applied = hist.applied + 1
                /\ grid' = OneGeneration(grid)
           /\ (Tick /\ running) =>
                /\ Ticks(queue') = Ticks(queue) + 1
                /\ Len(queue') = Len(queue) + 1
                /\ UNCHANGED <<grid, generation>>
           /\ Render =>
                /\ generation' = generation + Ticks(queue)
                /\ hist'.applied = hist.applied + Ticks(queue)
                /\ (queue = <<tickUpdate>> => grid' = OneGeneration(grid))
           /\ (runToggle \/ (\E p \in Board : toggleCell(p[1], p[2]))
                         \/ (\E v \in Speeds : setSpeed(v))) =>
                /\ generation' = generation
                /\ hist'.applied = hist.applied
         ]_vars

\* One generation counted, the driver RUNNING with cells on the board and
\* the updates of one more tick queued
C8_Witness ==
    /\ generation = 1
    /\ hist.applied = 1
    /\ running
    /\ interval
    /\ queue = <<tickUpdate>>
    /\ \E p \in Board : grid[p[1]][p[2]] = ALIVE

(***************************************************************************)
(* C9: toggleCell(row, col) and getCellState(row, col) with a coordinate   *)
(* outside the grid signal an error and leave the grid's dimensions and    *)
(* every cell unchanged.                                                   *)
(***************************************************************************)
C9_OutOfRangeIsAnError ==
    [][ /\ \A r \in -1..rows, c \in -1..cols :
            (<<r, c>> \notin Board /\ toggleCell(r, c)) =>
                /\ ret'.err # "none"
                /\ Length(grid') = Length(grid)
                /\ \A i \in 0..(Length(grid) - 1) :
                    /\ Length(grid'[i]) = Length(grid[i])
                    /\ \A j \in 0..(Length(grid[i]) - 1) : grid'[i][j] = grid[i][j]
        /\ \A row \in -1..JRows(jgrid), col \in -1..JCols(jgrid, 0) :
            ((row \notin DOMAIN jgrid \/ col \notin DOMAIN jgrid[0])
                /\ getCellState(row, col)) =>
                /\ ret'.err # "none"
                /\ jgrid' = jgrid
      ]_vars

(***************************************************************************)
(* C10: while the driver is STOPPED no tick changes the grid or the        *)
(* generation counter, neither its callback nor the render of its updates; *)
(* a callback that fires after clear, before the interval is cleared,      *)
(* leaves the grid all DEAD and the counter 0.                             *)
(***************************************************************************)
C10_NoTickWhileStopped ==
    /\ [][(~running /\ (Tick \/ Render)) => UNCHANGED <<grid, generation>>]_vars
    /\ []((hist.last = "clear" /\ hist.skipped) =>
            /\ generation = 0
            /\ \A p \in Board : grid[p[1]][p[2]] = DEAD)

=============================================================================
